---- MODULE Spec2Model ----
(***************************************************************************)
(* Model of the asynchronous verification pipeline of the TrueSight        *)
(* backend: the circuit breaker of services/aiEngineClient.ts, the         *)
(* background task of services/analysisProcessor.ts and the analysis       *)
(* record written through services/analysisService.ts.                     *)
(*                                                                         *)
(* Node runs the code on one thread, so every synchronous stretch of code  *)
(* between two awaits is one atomic action; tasks interleave at awaits.    *)
(***************************************************************************)
EXTENDS Integers, FiniteSets, Sequences, TLC

\* ---------------------------------------------------------------- bounds
MaxTasks == 2
MaxFailures == 6
StartTime == 100000
MaxTime == 190000
MaxFrames == 3
MaxHits == 7

\* ------------------------------------------------------ program constants
CIRCUIT_BREAKER_THRESHOLD == 5
CIRCUIT_BREAKER_TIMEOUT == 60000
CIRCUIT_BREAKER_RESET_TIMEOUT == 30000

Tasks == 1..MaxTasks
\* Time advances in steps of the reset window, so that the differences
\* now - lastFailureTime fall on 0, on both window lengths and beyond them.
TickSteps == {CIRCUIT_BREAKER_RESET_TIMEOUT}
ContentTypes == {"image", "video"}

\* What the POST to the AI Engine can end in.
\*   ok       2xx with a usable body         okBad    2xx with a null body
\*   http400/http413/http500/http502  an HTTP error status
\*   http400msg  HTTP 400 whose body carries a message
\*   timeout  ECONNABORTED / ETIMEDOUT       refused  ECONNREFUSED
\*   neterr   any other axios error without a response
EngineOutcomes ==
  {"ok", "okBad", "http400", "http400msg", "http413", "http500", "http502",
   "timeout", "refused", "neterr"}
SuccessOutcomes == {"ok", "okBad"}
ContentOutcomes == {"http400", "http400msg", "http413"}
InfraOutcomes == {"http500", "http502", "timeout", "refused", "neterr"}

\* What fs.unlink can end in: the file is removed, or an error other than
\* ENOENT (which deleteFile logs and swallows).
UnlinkOutcomes == {"ok", "error"}

VARIABLES
  circuitBreaker,  \* the module-level breaker {failures, lastFailureTime, state}
  now,             \* Date.now()
  task,            \* per slot: the submission, its record, its file, its task
  health,          \* the circuitBreaker part of the last GET /health answer
  aggIn,           \* Score Aggregator: the per-model outputs handed to it
  aggOut,          \* Score Aggregator: the Truth Score it returned
  frames,          \* Timeline Reducer: the per-model outputs of each frame
  videoOut,        \* Timeline Reducer: the timeline and video score returned
  engineUp,        \* recovery view: whether the AI Engine answers with success
  engineResult,    \* persisting: the score fields of the AI Engine's 2xx body
  stored,          \* persisting: the record's status and result after the writes
  limiter,         \* rate limiter: per client, the hits of its current window
  answer,          \* rate limiter: the answer to the last upload request
  historyRequest,  \* history: the query parameters of a GET /api/history
  historyAnswer,   \* history: the answer, and whether the query ran
  uploadReq,   \* upload: the route and the file of a POST /api/upload/*
  upload,          \* upload: how far the request is, and its answer
  records,         \* upload: number of analysis records
  started,         \* upload: number of background analyses started
  dashboard,       \* results page: mounted, loading, interval set
  inFlight,        \* results page: status requests not yet answered, by caller
  analysisStatus,  \* results page: what the server holds for the analysis
  requests         \* results page: status requests issued so far

\* The pipeline's own state, and the state of the components around it,
\* one group per component; exceptX is every component but X.
coreVars == <<circuitBreaker, now, task>>
monitorVars == <<health>>
scoreVars == <<aggIn, aggOut, frames, videoOut>>
recoverVars == <<engineUp>>
persistVars == <<engineResult, stored>>
limiterVars == <<limiter, answer>>
historyVars == <<historyRequest, historyAnswer>>
uploadVars == <<uploadReq, upload, records, started>>
pollVars == <<dashboard, inFlight, analysisStatus, requests>>
otherVars ==
  <<monitorVars, scoreVars, recoverVars, persistVars, limiterVars, historyVars, uploadVars, pollVars>>
exceptMonitor ==
  <<scoreVars, recoverVars, persistVars, limiterVars, historyVars, uploadVars, pollVars>>
exceptScore ==
  <<monitorVars, recoverVars, persistVars, limiterVars, historyVars, uploadVars, pollVars>>
exceptRecover ==
  <<monitorVars, scoreVars, persistVars, limiterVars, historyVars, uploadVars, pollVars>>
exceptPersist ==
  <<monitorVars, scoreVars, recoverVars, limiterVars, historyVars, uploadVars, pollVars>>
exceptLimiter ==
  <<monitorVars, scoreVars, recoverVars, persistVars, historyVars, uploadVars, pollVars>>
exceptHistory ==
  <<monitorVars, scoreVars, recoverVars, persistVars, limiterVars, uploadVars, pollVars>>
exceptUpload ==
  <<monitorVars, scoreVars, recoverVars, persistVars, limiterVars, historyVars, pollVars>>
exceptPoll ==
  <<monitorVars, scoreVars, recoverVars, persistVars, limiterVars, historyVars, uploadVars>>
vars == <<coreVars, otherVars>>

\* ------------------------------------------------------- circuit breaker

\* checkCircuitBreaker: returns the breaker after the check and whether the
\* check threw AI_ENGINE_UNAVAILABLE.
checkCircuitBreaker(cb, t) ==
  IF cb.state = "OPEN"
  THEN IF t - cb.lastFailureTime > CIRCUIT_BREAKER_TIMEOUT
       THEN [cb |-> [cb EXCEPT !.state = "HALF_OPEN"], throws |-> FALSE]
       ELSE [cb |-> cb, throws |-> TRUE]
  ELSE [cb |-> cb, throws |-> FALSE]

recordFailureOpensLate(cb, t) ==
  LET n == cb.failures + 1
  IN [failures |-> n,
      lastFailureTime |-> t,
      state |-> IF n > CIRCUIT_BREAKER_THRESHOLD THEN "OPEN" ELSE cb.state]

recordFailureStopsCountingWhenOpen(cb, t) ==
  LET n == IF cb.state = "OPEN" THEN cb.failures ELSE cb.failures + 1
  IN [failures |-> n,
      lastFailureTime |-> t,
      state |-> IF n >= CIRCUIT_BREAKER_THRESHOLD THEN "OPEN" ELSE cb.state]

recordFailure(cb, t) ==
  LET n == cb.failures + 1
  IN [failures |-> n,
      lastFailureTime |-> t,
      state |-> IF n >= CIRCUIT_BREAKER_THRESHOLD THEN "OPEN" ELSE cb.state]

recordSuccessKeepsCount(cb, t) ==
  IF cb.state = "HALF_OPEN"
  THEN [cb EXCEPT !.state = "CLOSED"]
  ELSE cb

recordSuccessAlwaysResets(cb, t) ==
  IF cb.state \in {"HALF_OPEN", "CLOSED"}
  THEN [cb EXCEPT !.state = "CLOSED", !.failures = 0]
  ELSE cb

recordSuccess(cb, t) ==
  IF cb.state = "HALF_OPEN"
  THEN [cb EXCEPT !.state = "CLOSED", !.failures = 0]
  ELSE IF cb.state = "CLOSED"
       THEN IF t - cb.lastFailureTime > CIRCUIT_BREAKER_RESET_TIMEOUT
            THEN [cb EXCEPT !.failures = 0]
            ELSE cb
       ELSE cb

\* getCircuitBreakerStatus: the breaker after the read, and the object
\* returned.
getCircuitBreakerStatusChecks(cb, t) ==
  LET c == checkCircuitBreaker(cb, t).cb
  IN [cb |-> c,
      returns |-> [state |-> c.state, failures |-> c.failures,
                   lastFailureTime |-> c.lastFailureTime]]

getCircuitBreakerStatus(cb, t) ==
  [cb |-> cb,
   returns |-> [state |-> cb.state, failures |-> cb.failures,
                lastFailureTime |-> cb.lastFailureTime]]

\* mapAIEngineError: the error code of the CustomError built from an axios
\* error.
mapAIEngineErrorRefusedUnmapped(o) ==
  CASE o = "timeout" -> "ANALYSIS_TIMEOUT"
    [] o \in {"http400", "http400msg"} -> "INVALID_CONTENT"
    [] o = "http413" -> "CONTENT_TOO_LARGE"
    [] o = "http500" -> "ANALYSIS_FAILED"
    [] OTHER -> "AI_ENGINE_ERROR"

mapAIEngineError(o) ==
  CASE o = "timeout" -> "ANALYSIS_TIMEOUT"
    [] o = "refused" -> "AI_ENGINE_UNAVAILABLE"
    [] o \in {"http400", "http400msg"} -> "INVALID_CONTENT"
    [] o = "http413" -> "CONTENT_TOO_LARGE"
    [] o = "http500" -> "ANALYSIS_FAILED"
    [] OTHER -> "AI_ENGINE_ERROR"

\* mapAIEngineError: the HTTP status of the CustomError built from an axios
\* error.
mapAIEngineErrorStatus(o) ==
  CASE o = "timeout" -> 408
    [] o = "refused" -> 503
    [] o \in {"http400", "http400msg"} -> 400
    [] o = "http413" -> 413
    [] OTHER -> 500

\* The HTTP status of the CustomError thrown by checkCircuitBreaker.
BreakerOpenStatus == 503

\* Texts that are not the backend's own: the message field of the AI
\* Engine's 400 response body, and the message of the TypeError thrown when
\* the task reads a field of a null response body.
EnginePayloadMessage == "<message of the AI Engine's response body>"
RawTypeErrorMessage == "Cannot read properties of null (reading 'truthScore')"

\* The messages the backend's own CustomErrors are built with.
BreakerOpenMessage ==
  "AI Engine is temporarily unavailable. Please try again later."
UpdateFailedMessage == "Failed to update analysis"

\* mapAIEngineError: the message of the CustomError built from an axios
\* error.
mapAIEngineErrorMessage(o) ==
  CASE o = "timeout" ->
         "AI analysis timeout. The content may be too large or complex."
    [] o = "refused" -> "AI Engine is unavailable"
    [] o = "http400msg" -> EnginePayloadMessage
    [] o = "http400" -> "Invalid content for analysis"
    [] o = "http413" -> "Content too large for analysis"
    [] o = "http500" -> "AI analysis failed"
    [] OTHER -> "Failed to communicate with AI Engine"

\* --------------------------------------------------------------- records

\* A slot without a submission.  Of a submission the model keeps: the
\* position of its task (pc), the record's status and whether result and
\* error are set, the code, the HTTP status and the message of the error the
\* task has caught and not yet written (err, errStatus, errMsg) and the fault
\* the gateway built it from (fault),
\* whether the media file exists, whether a request went to the AI Engine
\* whose outcome is not yet written (sent), the breaker state the call was
\* admitted in while it is in flight (admitted), the handler's answer, and
\* how the task ended.
IdleTask ==
  [pc |-> "idle",
   status |-> "none", hasResult |-> FALSE, hasError |-> FALSE,
   err |-> "none", errStatus |-> 0, errMsg |-> "none", fault |-> "none",
   fileExists |-> FALSE,
   sent |-> FALSE, admitted |-> "none", responded |-> FALSE,
   deleteCalled |-> FALSE, thrown |-> FALSE, unhandled |-> FALSE,
   response |-> "none"]

\* createAnalysis: the record saved for a new submission.
createAnalysis(c) ==
  [IdleTask EXCEPT !.status = "processing", !.fileExists = TRUE]

\* The pipeline at process start.
InitCore ==
  /\ circuitBreaker = [failures |-> 0, lastFailureTime |-> 0, state |-> "CLOSED"]
  /\ now = StartTime
  /\ task = [t \in Tasks |-> IdleTask]

\* GET /health not asked yet.
NoHealth ==
  [timestamp |-> 0,
   circuitBreaker |-> [state |-> "none", failures |-> 0, lastFailureTime |-> 0]]

\* ------------------------------------------------------ Score Aggregator

\* Scores and confidences, numbers in [0, 1], are kept in hundredths and
\* base weights in percent, so that all sums are integers.
Models == {"classifier", "deepfake", "ganFingerprint", "forgery", "compression"}

BaseWeight ==
  [classifier |-> 30, deepfake |-> 25, ganFingerprint |-> 20,
   forgery |-> 15, compression |-> 10]

NEUTRAL_SCORE == 50

RECURSIVE SumOver(_, _)
SumOver(S, f) ==
  IF S = {} THEN 0
  ELSE LET x == CHOOSE y \in S : TRUE
       IN f[x] + SumOver(S \ {x}, f)

\* round(n / d) for n >= 0 and d > 0, halves upwards.
Round(n, d) == (2 * n + d) \div (2 * d)

Clamp(x) == IF x < 0 THEN 0 ELSE IF x > 100 THEN 100 ELSE x

\* effectiveWeight_i = baseWeight_i * confidence_i
effectiveWeightIgnoresConfidence(m, o) == BaseWeight[m] * 100

effectiveWeightAtLeastOne(m, o) ==
  BaseWeight[m] * (IF o.confidence = 0 THEN 1 ELSE o.confidence)

effectiveWeight(m, o) == BaseWeight[m] * o.confidence

\* sum of effectiveWeight_i * score_i over the models present
numeratorUnweighted(outs) ==
  SumOver(DOMAIN outs,
          [m \in DOMAIN outs |-> BaseWeight[m] * 100 * outs[m].score])

numerator(outs) ==
  SumOver(DOMAIN outs,
          [m \in DOMAIN outs |-> effectiveWeight(m, outs[m]) * outs[m].score])

\* denom = sum of effectiveWeight_i
denominator(outs) ==
  SumOver(DOMAIN outs, [m \in DOMAIN outs |-> effectiveWeight(m, outs[m])])

\* The Aggregator's result: the value of the weighted formula (weighted),
\* the Truth Score clamped to [0, 100] and its complement.
aggregateFallsBackToBaseWeights(outs) ==
  LET denom == denominator(outs)
      w == IF denom > 0
           THEN Round(numerator(outs), denom)
           ELSE Round(numeratorUnweighted(outs),
                      SumOver(DOMAIN outs,
                              [m \in DOMAIN outs |-> BaseWeight[m] * 100]))
  IN [done |-> TRUE,
      weighted |-> w,
      truthScore |-> Clamp(w),
      aiGeneratedProbability |-> 100 - Clamp(w)]

aggregate(outs) ==
  LET denom == denominator(outs)
      w == IF denom > 0 THEN Round(numerator(outs), denom) ELSE NEUTRAL_SCORE
  IN [done |-> TRUE,
      weighted |-> w,
      truthScore |-> Clamp(w),
      aiGeneratedProbability |-> 100 - Clamp(w)]

NoScore ==
  [done |-> FALSE, weighted |-> 0, truthScore |-> 0,
   aiGeneratedProbability |-> 0]

\* The neutral entry {score: 0.5, confidence: 0} for every model.
NeutralOutputs == [m \in Models |-> [score |-> 50, confidence |-> 0]]

\* ------------------------------------------------- Video Timeline Reducer

FRAME_EXTRACTION_INTERVAL_SECONDS == 1
SUSPICIOUS_BELOW == 50

\* The timeline entry of the i-th extracted frame.
frameEntryFlagsAtThreshold(fr, scores, i) ==
  [frameIndex |-> i - 1,
   timestampSec |-> (i - 1) * FRAME_EXTRACTION_INTERVAL_SECONDS,
   frameScore |-> scores[i],
   suspicious |-> scores[i] <= SUSPICIOUS_BELOW]

frameEntry(fr, scores, i) ==
  [frameIndex |-> i - 1,
   timestampSec |-> (i - 1) * FRAME_EXTRACTION_INTERVAL_SECONDS,
   frameScore |-> scores[i],
   suspicious |-> scores[i] < SUSPICIOUS_BELOW]

\* The Reducer's result for a video of at least one frame: one timeline
\* entry per frame, and the mean of the frame scores as the video's Truth
\* Score (rounded, truthScore being an integer).
reduceTimeline(fr) ==
  LET n == Len(fr)
      scores == [i \in 1..n |-> aggregate(fr[i]).truthScore]
  IN [done |-> TRUE,
      timeline |-> [i \in 1..n |-> frameEntry(fr, scores, i)],
      truthScore |-> Round(SumOver(1..n, scores), n)]

NoVideo == [done |-> FALSE, timeline |-> <<>>, truthScore |-> 0]

IdleMonitor == health = NoHealth

IdleScore ==
  /\ aggIn = NeutralOutputs
  /\ aggOut = NoScore
  /\ frames = <<>>
  /\ videoOut = NoVideo

\* The AI Engine answers.
IdleRecover == engineUp = TRUE

\* ------------------------------------------------ the result persisted

\* A field of the AI Engine's response body: absent (undefined) or a number.
Undefined == [defined |-> FALSE, value |-> 0]
Number(n) == [defined |-> TRUE, value |-> n]

\* x || y of JavaScript for a numeric field x: y when x is undefined or 0.
OrElse(x, y) == IF x.defined /\ x.value # 0 THEN x ELSE y

\* 100 - x of JavaScript: NaN, kept as undefined, when x is undefined.
HundredMinus(x) == IF x.defined THEN Number(100 - x.value) ELSE Undefined

\* The result object processImageAnalysis hands to updateAnalysis.
imageResult(r) ==
  [truthScore |-> r.truthScore,
   aiGeneratedProbability |-> r.aiGeneratedProbability]

\* The result object processVideoAnalysis hands to updateAnalysis.
videoResult(r) ==
  [truthScore |-> r.truthScore,
   aiGeneratedProbability |->
     OrElse(r.aiGeneratedProbability, HundredMinus(r.truthScore))]

\* AnalysisResultSchema, applied by runValidators: both numbers required,
\* min 0, max 100.
validResult(res) ==
  /\ res.truthScore.defined /\ res.truthScore.value \in 0..100
  /\ res.aiGeneratedProbability.defined
  /\ res.aiGeneratedProbability.value \in 0..100

\* The record's status and result after the task's writes: completed with
\* the result, or failed after updateAnalysis refused it.
recordAfter(res) ==
  IF validResult(res)
  THEN [status |-> "completed",
        truthScore |-> res.truthScore.value,
        aiGeneratedProbability |-> res.aiGeneratedProbability.value]
  ELSE [status |-> "failed", truthScore |-> 0, aiGeneratedProbability |-> 0]

ProcessingRecord ==
  [status |-> "processing", truthScore |-> 0, aiGeneratedProbability |-> 0]

NoEngineResult ==
  [contentType |-> "image", truthScore |-> Undefined,
   aiGeneratedProbability |-> Undefined]

IdlePersist == engineResult = NoEngineResult /\ stored = ProcessingRecord

\* -------------------------------------------------- upload rate limiter

RATE_LIMIT_WINDOW_MS == 60000
RATE_LIMIT_MAX_REQUESTS == 10

\* max of uploadRateLimiter, the one instance both upload routes share.
uploadMaxNotHalved == RATE_LIMIT_MAX_REQUESTS

uploadMax == RATE_LIMIT_MAX_REQUESTS \div 2

Clients == {"ip1", "ip2"}

\* The limiter's entry for a client: the hits in its current window, when
\* that window ends, and how many of the hits went on to the handler.
NoHits == [hits |-> 0, resetTime |-> 0, admitted |-> 0]

\* express-rate-limit on a request of a client at time t: a hit after the
\* window's end starts a new window of windowMs; every hit is counted, and
\* the request goes on to the handler unless the count exceeds max.
hit(e, t) ==
  LET fresh == t >= e.resetTime
      n == IF fresh THEN 1 ELSE e.hits + 1
      pass == n <= uploadMax
  IN [hits |-> n,
      resetTime |-> IF fresh THEN t + RATE_LIMIT_WINDOW_MS ELSE e.resetTime,
      admitted |-> (IF fresh THEN 0 ELSE e.admitted) + (IF pass THEN 1 ELSE 0)]

\* The answer to an upload request: 429 from the limiter's handler, or the
\* upload handler's 200 after createAnalysis.
limitedAnswer(ip) ==
  [ip |-> ip, status |-> 429, code |-> "RATE_LIMIT_EXCEEDED", created |-> FALSE]
acceptedAnswer(ip) ==
  [ip |-> ip, status |-> 200, code |-> "none", created |-> TRUE]
NoAnswer == [ip |-> "none", status |-> 0, code |-> "none", created |-> FALSE]

IdleLimiter == limiter = [ip \in Clients |-> NoHits] /\ answer = NoAnswer

\* ---------------------------------------------------------- GET /history

\* A query parameter as the client sent it: absent, the empty string, a
\* decimal integer, or text that does not start with a number.
Absent == [kind |-> "absent", n |-> 0]
Empty == [kind |-> "empty", n |-> 0]
Text == [kind |-> "text", n |-> 0]
Digits(n) == [kind |-> "int", n |-> n]

\* parseInt(q) || dflt: NaN (absent, empty or text) and 0 are falsy and give
\* the default.
parseIntOr(q, dflt) == IF q.kind = "int" /\ q.n # 0 THEN q.n ELSE dflt

\* q ? parseInt(q) : dflt: only an absent or empty parameter gives the
\* default; text parses to NaN.
parseIntIfPresent(q, dflt) ==
  CASE q.kind \in {"absent", "empty"} -> [nan |-> FALSE, n |-> dflt]
    [] q.kind = "text" -> [nan |-> TRUE, n |-> 0]
    [] OTHER -> [nan |-> FALSE, n |-> q.n]

validatePaginationDefaultsZero(q) ==
  LET page == parseIntOr(q.page, 1)
      limit == parseIntOr(q.limit, 10)
  IN IF page < 1 \/ limit < 1 \/ limit > 100
     THEN [ok |-> FALSE, query |-> q]
     ELSE [ok |-> TRUE,
           query |-> [q EXCEPT !.page = Digits(page), !.limit = Digits(limit)]]

\* validatePagination: throws 400 INVALID_PAGINATION, or passes the request
\* on with page and limit rewritten to the validated numbers.
validatePagination(q) ==
  LET page == parseIntIfPresent(q.page, 1)
      limit == parseIntIfPresent(q.limit, 10)
  IN IF page.nan \/ page.n < 1 \/ limit.nan \/ limit.n < 1 \/ limit.n > 100
     THEN [ok |-> FALSE, query |-> q]
     ELSE [ok |-> TRUE,
           query |-> [q EXCEPT !.page = Digits(page.n),
                               !.limit = Digits(limit.n)]]

NoHistoryRequest == [page |-> Absent, limit |-> Absent, userId |-> Absent]
NoHistoryAnswer ==
  [status |-> 0, code |-> "none", queried |-> FALSE, page |-> 0, limit |-> 0]

InvalidPagination ==
  [status |-> 400, code |-> "INVALID_PAGINATION", queried |-> FALSE,
   page |-> 0, limit |-> 0]

\* getHistory: the answer, and whether findAllAnalyses /
\* findAnalysesByUserId ran.
getHistory(q) ==
  LET page == parseIntOr(q.page, 1)
      limit == parseIntOr(q.limit, 10)
  IN IF page < 1 \/ limit < 1 \/ limit > 100
     THEN InvalidPagination
     ELSE [status |-> 200, code |-> "none", queried |-> TRUE,
           page |-> page, limit |-> limit]

IdleHistory ==
  historyRequest = NoHistoryRequest /\ historyAnswer = NoHistoryAnswer

\* ------------------------------------------------------ POST /upload/*

\* Sizes in MB.
MAX_IMAGE_SIZE == 10
MAX_VIDEO_SIZE == 100
MULTER_FILE_SIZE == 100

ALLOWED_IMAGE_TYPES == {"image/jpeg", "image/png", "image/webp"}
ALLOWED_VIDEO_TYPES == {"video/mp4", "video/quicktime", "video/webm"}

maxSize(type) == IF type = "image" THEN MAX_IMAGE_SIZE ELSE MAX_VIDEO_SIZE
allowedTypes(type) ==
  IF type = "image" THEN ALLOWED_IMAGE_TYPES ELSE ALLOWED_VIDEO_TYPES

\* validateImageFile / validateVideoFile: the code of the error thrown, or
\* "ok". mime is what fileTypeFromBuffer detects, "none" when it detects
\* nothing.
validateFile(type, mime, size) ==
  IF size > maxSize(type) THEN "FILE_TOO_LARGE"
  ELSE IF mime = "none" \/ mime \notin allowedTypes(type)
       THEN "INVALID_FILE_TYPE"
       ELSE "ok"

\* errorHandler: err.statusCode || 500 and err.code; a CustomError of the
\* upload path carries 400, a MulterError carries a code and no statusCode.
errorStatus(code) ==
  IF code \in {"NO_FILE_UPLOADED", "FILE_TOO_LARGE", "INVALID_FILE_TYPE"}
  THEN 400 ELSE 500

NoUploadRequest == [type |-> "image", hasFile |-> FALSE, size |-> 0,
                    mime |-> "none"]
NoUpload == [pc |-> "idle", reqFile |-> FALSE, fileOnDisk |-> FALSE,
             status |-> 0, code |-> "none"]

IdleUpload ==
  /\ uploadReq = NoUploadRequest
  /\ upload = NoUpload
  /\ records = 0
  /\ started = 0

\* ---------------------------------------------------- ResultsDashboard

MaxPolls == 3

\* What GET /api/analysis/:id answers: a status, "notFound" for a 404, or
\* "networkError" for any other failure of the request.
TerminalAnswers == {"completed", "failed", "notFound"}

\* fetchResult's return value: TRUE to stop polling.
fetchResult(ans) == ans \in TerminalAnswers

NoPage == [mounted |-> "no", loading |-> TRUE, pollInterval |-> FALSE]
NoInFlight == [mount |-> 0, interval |-> 0]

IdlePoll ==
  /\ dashboard = NoPage
  /\ inFlight = NoInFlight
  /\ analysisStatus = "processing"
  /\ requests = 0

\* Nothing asked of the components around the pipeline; idleExceptX leaves
\* component X out.
InitOthers ==
  /\ IdleMonitor
  /\ IdleScore
  /\ IdleRecover
  /\ IdlePersist
  /\ IdleLimiter
  /\ IdleHistory
  /\ IdleUpload
  /\ IdlePoll
idleExceptMonitor ==
  /\ IdleScore
  /\ IdleRecover
  /\ IdlePersist
  /\ IdleLimiter
  /\ IdleHistory
  /\ IdleUpload
  /\ IdlePoll
idleExceptScore ==
  /\ IdleMonitor
  /\ IdleRecover
  /\ IdlePersist
  /\ IdleLimiter
  /\ IdleHistory
  /\ IdleUpload
  /\ IdlePoll
idleExceptRecover ==
  /\ IdleMonitor
  /\ IdleScore
  /\ IdlePersist
  /\ IdleLimiter
  /\ IdleHistory
  /\ IdleUpload
  /\ IdlePoll
idleExceptPersist ==
  /\ IdleMonitor
  /\ IdleScore
  /\ IdleRecover
  /\ IdleLimiter
  /\ IdleHistory
  /\ IdleUpload
  /\ IdlePoll
idleExceptLimiter ==
  /\ IdleMonitor
  /\ IdleScore
  /\ IdleRecover
  /\ IdlePersist
  /\ IdleHistory
  /\ IdleUpload
  /\ IdlePoll
idleExceptHistory ==
  /\ IdleMonitor
  /\ IdleScore
  /\ IdleRecover
  /\ IdlePersist
  /\ IdleLimiter
  /\ IdleUpload
  /\ IdlePoll
idleExceptUpload ==
  /\ IdleMonitor
  /\ IdleScore
  /\ IdleRecover
  /\ IdlePersist
  /\ IdleLimiter
  /\ IdleHistory
  /\ IdlePoll
idleExceptPoll ==
  /\ IdleMonitor
  /\ IdleScore
  /\ IdleRecover
  /\ IdlePersist
  /\ IdleLimiter
  /\ IdleHistory
  /\ IdleUpload

Init == InitCore /\ InitOthers

\* updateAnalysis: findByIdAndUpdate(id, {$set: updates}); only the fields
\* named in the update are written.
updateAnalysis(rec, u) ==
  [rec EXCEPT !.status = u.status,
              !.hasResult = rec.hasResult \/ u.result,
              !.hasError = rec.hasError \/ u.error]

completedUpdate == [status |-> "completed", result |-> TRUE, error |-> FALSE]
failedUpdateWithoutError == [status |-> "failed", result |-> FALSE, error |-> FALSE]

failedUpdate == [status |-> "failed", result |-> FALSE, error |-> TRUE]

\* ------------------------------------------------------ background task

\* Where processImageAnalysis / processVideoAnalysis goes when the
\* completed write settles: past the catch block, or into it.
afterCompletedWriteAlwaysCatch(ok) == "writeFailed"

afterCompletedWrite(ok) == IF ok THEN "cleanup" ELSE "writeFailed"

\* Where the task goes when analyzeImage / analyzeVideo throws: into the
\* catch block, which writes the record failed.  Nothing calls the gateway a
\* second time.
afterGatewayThrowRetriesTimeout(code) ==
  IF code = "ANALYSIS_TIMEOUT" THEN "inflight" ELSE "writeFailed"

afterGatewayThrow(code) == "writeFailed"

\* Where the task goes when the failed write of the catch block settles:
\* the finally block runs whether the write resolved or rejected.
afterFailedWriteNoFinally(ok) == IF ok THEN "cleanup" ELSE "done"

afterFailedWrite(ok) == "cleanup"

\* The .catch attached by startAnalysis: a rejection of the task's promise
\* is logged there, so none is left unhandled.
catchHandlerMissing(thrown) == thrown

catchHandler(thrown) == FALSE

\* The upload / URL handler from createAnalysis on: it saves the record,
\* calls startAnalysis and answers.  startAnalysis runs the task up to its
\* first await, i.e. through checkCircuitBreaker and, when that throws,
\* through the recordFailure of analyzeImage / analyzeVideo's catch.
uploadHandler(t, c) ==
  /\ task[t].pc = "idle"
  /\ LET rec == createAnalysis(c)
         chk == checkCircuitBreaker(circuitBreaker, now)
     IN IF chk.throws
        THEN /\ circuitBreaker.failures < MaxFailures
             /\ circuitBreaker' = recordFailure(chk.cb, now)
             /\ task' = [task EXCEPT ![t] =
                  [rec EXCEPT !.pc = "writeFailed",
                              !.err = "AI_ENGINE_UNAVAILABLE",
                              !.errStatus = BreakerOpenStatus,
                              !.errMsg = BreakerOpenMessage,
                              !.fault = "breakerOpen",
                              !.responded = TRUE,
                              !.response = rec.status]]
        ELSE /\ circuitBreaker' = chk.cb
             /\ task' = [task EXCEPT ![t] =
                  [rec EXCEPT !.pc = "inflight",
                              !.sent = TRUE,
                              !.admitted = IF circuitBreaker.state = "OPEN"
                                           THEN "TRIAL"
                                           ELSE circuitBreaker.state,
                              !.responded = TRUE,
                              !.response = rec.status]]
  /\ UNCHANGED <<now, otherVars>>

\* The POST to the AI Engine settles and analyzeImage / analyzeVideo runs
\* to its return or throw; the task resumes in its try or catch block.
aiEngineResponds(t, o) ==
  /\ task[t].pc = "inflight"
  /\ IF o \in SuccessOutcomes
     THEN /\ circuitBreaker' = recordSuccess(circuitBreaker, now)
          /\ task' = [task EXCEPT ![t] =
               IF o = "ok"
               THEN [@ EXCEPT !.pc = "writeCompleted", !.admitted = "none"]
               ELSE [@ EXCEPT !.pc = "writeFailed", !.admitted = "none",
                              !.err = "TypeError",
                              !.errMsg = RawTypeErrorMessage]]
     ELSE /\ circuitBreaker.failures < MaxFailures
          /\ circuitBreaker' = recordFailure(circuitBreaker, now)
          /\ task' = [task EXCEPT ![t] =
               [@ EXCEPT !.pc = afterGatewayThrow(mapAIEngineError(o)),
                         !.admitted = "none",
                         !.err = mapAIEngineError(o),
                         !.errStatus = mapAIEngineErrorStatus(o),
                         !.errMsg = mapAIEngineErrorMessage(o),
                         !.fault = o]]
  /\ UNCHANGED <<now, otherVars>>

\* await updateAnalysis(id, {status: 'completed', result, completedAt})
writeCompleted(t, ok) ==
  /\ task[t].pc = "writeCompleted"
  /\ task' = [task EXCEPT ![t] =
       IF ok
       THEN [updateAnalysis(@, completedUpdate) EXCEPT
               !.pc = afterCompletedWrite(ok), !.sent = FALSE]
       ELSE [@ EXCEPT !.pc = afterCompletedWrite(ok),
                      !.err = "DATABASE_ERROR",
                      !.errMsg = UpdateFailedMessage]]
  /\ UNCHANGED <<circuitBreaker, now, otherVars>>

\* await updateAnalysis(id, {status: 'failed', error: error.message,
\* completedAt}) in the catch block; when it rejects, the rejection leaves
\* the catch block.
writeFailed(t, ok) ==
  /\ task[t].pc = "writeFailed"
  /\ task' = [task EXCEPT ![t] =
       IF ok
       THEN [updateAnalysis(@, failedUpdate) EXCEPT
               !.pc = afterFailedWrite(ok), !.err = "none",
               !.errStatus = 0, !.errMsg = "none", !.fault = "none",
               !.sent = FALSE]
       ELSE [@ EXCEPT !.pc = afterFailedWrite(ok), !.err = "none",
                      !.errStatus = 0, !.errMsg = "none", !.fault = "none",
                      !.sent = FALSE, !.thrown = TRUE]]
  /\ UNCHANGED <<circuitBreaker, now, otherVars>>

\* finally { await deleteFile(filePath) }, after which the task's promise
\* settles and a rejection reaches the .catch of startAnalysis.
deleteFile(t, r) ==
  /\ task[t].pc = "cleanup"
  /\ task' = [task EXCEPT ![t] =
       [@ EXCEPT !.pc = "done",
                 !.deleteCalled = TRUE,
                 !.fileExists = IF r = "ok" THEN FALSE ELSE @,
                 !.unhandled = catchHandler(task[t].thrown)]]
  /\ UNCHANGED <<circuitBreaker, now, otherVars>>

\* The slot of a finished task is taken by the next submission.
forget(t) ==
  /\ task[t].pc = "done"
  /\ task' = [task EXCEPT ![t] = IdleTask]
  /\ UNCHANGED <<circuitBreaker, now, otherVars>>

\* Time passes.
Tick(d) ==
  /\ now + d <= MaxTime
  /\ now' = now + d
  /\ UNCHANGED <<circuitBreaker, task, otherVars>>

Next ==
  \/ \E t \in Tasks, c \in ContentTypes : uploadHandler(t, c)
  \/ \E t \in Tasks, o \in EngineOutcomes : aiEngineResponds(t, o)
  \/ \E t \in Tasks, ok \in BOOLEAN : writeCompleted(t, ok)
  \/ \E t \in Tasks, ok \in BOOLEAN : writeFailed(t, ok)
  \/ \E t \in Tasks, r \in UnlinkOutcomes : deleteFile(t, r)
  \/ \E t \in Tasks : forget(t)
  \/ \E d \in TickSteps : Tick(d)

Spec == Init /\ [][Next]_vars

\* ------------------------------------------------------------ GET /health

\* The health route from its call of getCircuitBreakerStatus on: it keeps
\* the object returned and answers with it and the time.  (The
\* checkAIEngineHealth before it is a GET that bypasses the breaker.)
healthCheck ==
  LET r == getCircuitBreakerStatus(circuitBreaker, now)
  IN /\ circuitBreaker' = r.cb
     /\ health' = [timestamp |-> now, circuitBreaker |-> r.returns]
     /\ UNCHANGED <<now, task, exceptMonitor>>

\* The pipeline with one submission at a time, and a monitor that polls
\* GET /health at any moment.
MonitorTasks == {1}

NextMonitor ==
  \/ \E t \in MonitorTasks, c \in ContentTypes : uploadHandler(t, c)
  \/ \E t \in MonitorTasks, o \in EngineOutcomes : aiEngineResponds(t, o)
  \/ \E t \in MonitorTasks, ok \in BOOLEAN : writeCompleted(t, ok)
  \/ \E t \in MonitorTasks, ok \in BOOLEAN : writeFailed(t, ok)
  \/ \E t \in MonitorTasks, r \in UnlinkOutcomes : deleteFile(t, r)
  \/ \E t \in MonitorTasks : forget(t)
  \/ \E d \in TickSteps : Tick(d)
  \/ healthCheck

SpecMonitor == Init /\ [][NextMonitor]_vars

TypeOK ==
  /\ circuitBreaker.state \in {"CLOSED", "OPEN", "HALF_OPEN"}
  /\ circuitBreaker.failures \in 0..MaxFailures
  /\ now \in StartTime..MaxTime
  /\ \A t \in Tasks : task[t].status \in {"none", "processing", "completed", "failed"}

\* ------------------------------------------------- the breaker, for ever

\* The gateway over an unbounded run, kept finite in two ways that the code
\* cannot tell apart.  The clock is relative: the code reads the time only
\* in now - lastFailureTime, so instead of moving now forward, time passing
\* moves lastFailureTime back (not below 0, an age far beyond both windows).
\* And failures stops at MaxFailures: the code reads it only in
\* failures >= CIRCUIT_BREAKER_THRESHOLD.  Of a call only the gateway part
\* is kept (the record writes and the clean-up do not touch the breaker).
elapse(cb, d) ==
  [cb EXCEPT !.lastFailureTime = IF @ > d THEN @ - d ELSE 0]

saturate(cb) ==
  [cb EXCEPT !.failures = IF @ > MaxFailures THEN MaxFailures ELSE @]

\* analyzeImage / analyzeVideo up to the POST: checkCircuitBreaker inside
\* the try block, whose catch calls recordFailure when the check throws.
callArrives(t) ==
  /\ task[t].pc = "idle"
  /\ LET chk == checkCircuitBreaker(circuitBreaker, now)
     IN IF chk.throws
        THEN /\ circuitBreaker' = saturate(recordFailure(chk.cb, now))
             /\ UNCHANGED task
        ELSE /\ circuitBreaker' = chk.cb
             /\ task' = [task EXCEPT ![t].pc = "inflight"]
  /\ UNCHANGED <<now, otherVars>>

\* The POST settles: recordSuccess, or recordFailure in the catch.
callReturns(t) ==
  /\ task[t].pc = "inflight"
  /\ circuitBreaker' =
       IF engineUp
       THEN recordSuccess(circuitBreaker, now)
       ELSE saturate(recordFailure(circuitBreaker, now))
  /\ task' = [task EXCEPT ![t].pc = "idle"]
  /\ UNCHANGED <<now, otherVars>>

timePasses ==
  /\ circuitBreaker' = elapse(circuitBreaker, CIRCUIT_BREAKER_RESET_TIMEOUT)
  /\ UNCHANGED <<now, task, otherVars>>

engineFails ==
  /\ engineUp
  /\ engineUp' = FALSE
  /\ UNCHANGED <<coreVars, exceptRecover>>

engineRecovers ==
  /\ ~engineUp
  /\ engineUp' = TRUE
  /\ UNCHANGED <<coreVars, exceptRecover>>

NextRecover ==
  \/ \E t \in Tasks : callArrives(t)
  \/ \E t \in Tasks : callReturns(t)
  \/ timePasses
  \/ engineFails
  \/ engineRecovers

\* Time passes, calls keep arriving and every call in flight settles (the
\* axios timeout sees to that).
SpecRecover ==
  /\ Init
  /\ [][NextRecover]_vars
  /\ WF_vars(timePasses)
  /\ WF_vars(\E t \in Tasks : callArrives(t))
  /\ WF_vars(\E t \in Tasks : callReturns(t))

\* ------------------------------------------- persisting the engine's result

\* What the AI Engine's 2xx body may carry in its two score fields.
ResponseFields == {Undefined} \cup {Number(n) : n \in {0, 40, 60, 100, 101}}

EngineResults ==
  [contentType : ContentTypes, truthScore : ResponseFields,
   aiGeneratedProbability : ResponseFields]

InitPersist ==
  /\ InitCore
  /\ idleExceptPersist
  /\ engineResult \in EngineResults
  /\ stored = ProcessingRecord

\* processImageAnalysis from the return of analyzeImage to the end of its
\* writes.
persistImage ==
  /\ stored.status = "processing"
  /\ engineResult.contentType = "image"
  /\ stored' = recordAfter(imageResult(engineResult))
  /\ UNCHANGED <<coreVars, engineResult, exceptPersist>>

\* processVideoAnalysis from the return of analyzeVideo to the end of its
\* writes.
persistVideo ==
  /\ stored.status = "processing"
  /\ engineResult.contentType = "video"
  /\ stored' = recordAfter(videoResult(engineResult))
  /\ UNCHANGED <<coreVars, engineResult, exceptPersist>>

NextPersist == persistImage \/ persistVideo

SpecPersist == InitPersist /\ [][NextPersist]_vars

\* ---------------------------------------------------- limited uploads

\* POST /api/upload/image or /video of a client with a valid file:
\* uploadRateLimiter, then the upload handler.
uploadRequest(ip) ==
  /\ limiter[ip].hits < MaxHits \/ now >= limiter[ip].resetTime
  /\ LET e == hit(limiter[ip], now)
     IN /\ limiter' = [limiter EXCEPT ![ip] = e]
        /\ answer' = IF e.hits <= uploadMax
                      THEN acceptedAnswer(ip)
                      ELSE limitedAnswer(ip)
  /\ UNCHANGED <<coreVars, exceptLimiter>>

NextLimiter ==
  \/ \E ip \in Clients : uploadRequest(ip)
  \/ \E d \in TickSteps : Tick(d)

SpecLimiter == Init /\ [][NextLimiter]_vars

\* ---------------------------------------------------------- results page

InitPoll ==
  /\ InitCore
  /\ idleExceptPoll
  /\ dashboard = NoPage
  /\ inFlight = NoInFlight
  /\ analysisStatus \in {"processing", "notFound"}
  /\ requests = 0

\* The effect runs on mount: fetchResult() is called, its result dropped,
\* and the interval is set.
mount ==
  /\ dashboard.mounted = "no"
  /\ dashboard' = [dashboard EXCEPT !.mounted = "yes", !.pollInterval = TRUE]
  /\ inFlight' = [inFlight EXCEPT !.mount = 1]
  /\ requests' = requests + 1
  /\ UNCHANGED <<coreVars, analysisStatus, exceptPoll>>

\* The interval fires after 2 s and calls fetchResult.
intervalFires ==
  /\ dashboard.pollInterval
  /\ requests < MaxPolls + 1
  /\ inFlight' = [inFlight EXCEPT !.interval = @ + 1]
  /\ requests' = requests + 1
  /\ UNCHANGED <<coreVars, dashboard, analysisStatus, exceptPoll>>

\* A request is answered and fetchResult resumes; only the interval's
\* callback looks at what it returns.
responseArrives(origin, ans) ==
  /\ inFlight[origin] > 0
  /\ ans \in {analysisStatus, "networkError"}
  /\ inFlight' = [inFlight EXCEPT ![origin] = @ - 1]
  /\ dashboard' = [dashboard EXCEPT
       !.loading = IF fetchResult(ans) THEN FALSE ELSE @,
       !.pollInterval =
          IF origin = "interval" /\ fetchResult(ans) THEN FALSE ELSE @]
  /\ UNCHANGED <<coreVars, analysisStatus, requests, exceptPoll>>

\* The analysis finishes on the server.
analysisEnds ==
  /\ analysisStatus = "processing"
  /\ analysisStatus' \in {"completed", "failed"}
  /\ UNCHANGED <<coreVars, dashboard, inFlight, requests, exceptPoll>>

\* The effect's cleanup on unmount.
unmount ==
  /\ dashboard.mounted = "yes"
  /\ dashboard' =
       [dashboard EXCEPT !.mounted = "gone", !.pollInterval = FALSE]
  /\ UNCHANGED <<coreVars, inFlight, analysisStatus, requests, exceptPoll>>

NextPoll ==
  \/ mount
  \/ intervalFires
  \/ \E origin \in {"mount", "interval"} :
       \E ans \in TerminalAnswers \cup {"processing", "networkError"} :
         responseArrives(origin, ans)
  \/ analysisEnds
  \/ unmount

SpecPoll == InitPoll /\ [][NextPoll]_vars

\* ------------------------------------------------------- upload requests

UploadSizes == {1, 10, 11, 100, 101}
UploadMimes == {"image/jpeg", "image/webp", "video/mp4", "application/pdf",
                "none"}
UploadRequests ==
  [type : {"image", "video"}, hasFile : {TRUE}, size : UploadSizes,
   mime : UploadMimes]
  \cup {[NoUploadRequest EXCEPT !.type = t] : t \in {"image", "video"}}
MaxRecords == 1

InitUpload ==
  /\ InitCore
  /\ idleExceptUpload
  /\ uploadReq \in UploadRequests
  /\ upload = [NoUpload EXCEPT !.pc = "multer"]
  /\ records \in 0..MaxRecords
  /\ started = 0

\* upload.single('file'): a file above limits.fileSize is removed again and
\* the MulterError goes to the error handler; any other file is stored and
\* handed to the controller as req.file.
multerSingle ==
  /\ upload.pc = "multer"
  /\ upload' =
       IF uploadReq.hasFile /\ uploadReq.size > MULTER_FILE_SIZE
       THEN [upload EXCEPT !.pc = "answered",
                           !.status = errorStatus("LIMIT_FILE_SIZE"),
                           !.code = "LIMIT_FILE_SIZE"]
       ELSE [upload EXCEPT !.pc = "controller",
                           !.reqFile = uploadReq.hasFile,
                           !.fileOnDisk = uploadReq.hasFile]
  /\ UNCHANGED <<coreVars, uploadReq, records, started, exceptUpload>>

\* uploadImage / uploadVideo.
uploadController ==
  /\ upload.pc = "controller"
  /\ LET verdict ==
           IF ~upload.reqFile THEN "NO_FILE_UPLOADED"
           ELSE validateFile(uploadReq.type, uploadReq.mime,
                             uploadReq.size)
     IN IF verdict = "ok"
        THEN /\ records' = records + 1
             /\ started' = started + 1
             /\ upload' = [upload EXCEPT !.pc = "answered", !.status = 200]
        ELSE /\ upload' = [upload EXCEPT !.pc = "answered",
                                         !.status = errorStatus(verdict),
                                         !.code = verdict,
                                         !.fileOnDisk = FALSE]
             /\ UNCHANGED <<records, started>>
  /\ UNCHANGED <<coreVars, uploadReq, exceptUpload>>

NextUpload == multerSingle \/ uploadController

SpecUpload == InitUpload /\ [][NextUpload]_vars

\* ------------------------------------------------------ history requests

PageValues == {Absent, Empty, Text} \cup {Digits(n) : n \in {-1, 0, 1, 2, 1000}}
LimitValues == {Absent, Empty, Text} \cup {Digits(n) : n \in {-1, 0, 1, 10, 100, 101}}
UserIdValues == {Absent, Text}

InitHistory ==
  /\ InitCore
  /\ idleExceptHistory
  /\ historyRequest \in
       [page : PageValues, limit : LimitValues, userId : UserIdValues]
  /\ historyAnswer = NoHistoryAnswer

\* GET /api/history is answered: validatePagination, then getHistory on the
\* request it passed on; what validatePagination throws is answered by the
\* error handler.
historyHandler ==
  /\ historyAnswer.status = 0
  /\ LET v == validatePagination(historyRequest)
     IN historyAnswer' = IF v.ok THEN getHistory(v.query) ELSE InvalidPagination
  /\ UNCHANGED <<coreVars, historyRequest, exceptHistory>>

NextHistory == historyHandler

SpecHistory == InitHistory /\ [][NextHistory]_vars

\* ------------------------------------------------------- score components

\* The values the per-model scores and confidences are drawn from.
ScoreGrid == {0, 50, 100}
ConfidenceGrid == {0, 50, 100}

\* The scenario input: classifier{0.9, 1.0}, deepfake{1.0, 1.0},
\* ganFingerprint{0.8, 0.5}, forgery{0.95, 1.0}, compression{0.7, 1.0}.
ScenarioOutputs ==
  [classifier |-> [score |-> 90, confidence |-> 100],
   deepfake |-> [score |-> 100, confidence |-> 100],
   ganFingerprint |-> [score |-> 80, confidence |-> 50],
   forgery |-> [score |-> 95, confidence |-> 100],
   compression |-> [score |-> 70, confidence |-> 100]]

AggregatorInputs ==
  [Models -> [score : ScoreGrid, confidence : ConfidenceGrid]]
  \cup {ScenarioOutputs}

\* A frame on which every model reports score s with full confidence.
UniformFrame(s) == [m \in Models |-> [score |-> s, confidence |-> 100]]
FrameScoreGrid == {40, 49, 50, 80, 90}
FrameInputs == {UniformFrame(s) : s \in FrameScoreGrid}

\* Videos of 1..MaxFrames frames.
VideoInputs ==
  UNION {[1..n -> FrameInputs] : n \in 1..MaxFrames}

InitScore ==
  /\ InitCore
  /\ idleExceptScore
  /\ aggOut = NoScore
  /\ videoOut = NoVideo
  /\ \/ aggIn \in AggregatorInputs /\ frames = <<>>
     \/ aggIn = NeutralOutputs /\ frames \in VideoInputs

\* The Aggregator is applied to the per-model outputs of an image.
aggregateImage ==
  /\ ~aggOut.done
  /\ frames = <<>>
  /\ aggOut' = aggregate(aggIn)
  /\ UNCHANGED <<coreVars, aggIn, frames, videoOut, exceptScore>>

\* The Reducer is applied to the frames of a video.
reduceVideo ==
  /\ ~videoOut.done
  /\ Len(frames) >= 1
  /\ videoOut' = reduceTimeline(frames)
  /\ UNCHANGED <<coreVars, aggIn, aggOut, frames, exceptScore>>

NextScore == aggregateImage \/ reduceVideo

SpecScore == InitScore /\ [][NextScore]_vars

\* ------------------------------------------------- steps, seen from outside

InfraCodes == {mapAIEngineError(o) : o \in InfraOutcomes}
ContentCodes == {mapAIEngineError(o) : o \in ContentOutcomes}

\* Task t's submission is accepted and startAnalysis runs in this step.
Starts(t) == task[t].pc = "idle" /\ task'[t].pc # "idle"
\* Task t's gateway call returns a response in this step.
GatewaySucceeds(t) ==
  /\ task[t].pc = "inflight"
  /\ \/ task'[t].pc = "writeCompleted"
     \/ task'[t].pc = "writeFailed" /\ task'[t].err = "TypeError"
\* Task t's gateway call throws one of the error codes in this step.
GatewayFails(t, codes) ==
  /\ task[t].pc = "inflight"
  /\ task'[t].pc = "writeFailed"
  /\ task'[t].err \in codes
CoolingDown ==
  /\ circuitBreaker.state = "OPEN"
  /\ now - circuitBreaker.lastFailureTime <= CIRCUIT_BREAKER_TIMEOUT
CooledDown ==
  /\ circuitBreaker.state = "OPEN"
  /\ now - circuitBreaker.lastFailureTime > CIRCUIT_BREAKER_TIMEOUT

\* ----------------------------------------------------------------- claims

\* C1: every gateway call that ends in an infra-level failure adds exactly
\* one to failures, and the breaker is OPEN after the one that brings failures
\* to 5 (CIRCUIT_BREAKER_THRESHOLD) or more; failures goes down only when a
\* gateway call succeeds, so five such failures in a row from failures = 0
\* open the breaker.  A call that starts while the breaker is OPEN and at most
\* 60 s after lastFailureTime is rejected with AI_ENGINE_UNAVAILABLE, sends no
\* request to the AI Engine and leaves the breaker OPEN.
C1_OpensAndRejects ==
  [][/\ \A t \in Tasks :
          /\ GatewayFails(t, InfraCodes)
             => /\ circuitBreaker'.failures = circuitBreaker.failures + 1
                /\ circuitBreaker'.failures >= CIRCUIT_BREAKER_THRESHOLD
                   => circuitBreaker'.state = "OPEN"
          /\ (Starts(t) /\ CoolingDown)
             => /\ ~task'[t].sent
                /\ task'[t].pc = "writeFailed"
                /\ task'[t].err = "AI_ENGINE_UNAVAILABLE"
                /\ circuitBreaker'.state = "OPEN"
     /\ circuitBreaker'.failures < circuitBreaker.failures
        => \E t \in Tasks : GatewaySucceeds(t)]_vars

\* The breaker is OPEN, the call whose infra-level failure opened it has not
\* yet written its record, and the next call has been rejected without a
\* request.
C1_Witness ==
  /\ circuitBreaker.state = "OPEN"
  /\ circuitBreaker.failures = CIRCUIT_BREAKER_THRESHOLD + 1
  /\ \E t, u \in Tasks :
       /\ task[t].pc = "writeFailed"
       /\ task[t].sent
       /\ task[t].err \in InfraCodes
       /\ task[u].pc = "writeFailed"
       /\ ~task[u].sent
       /\ task[u].err = "AI_ENGINE_UNAVAILABLE"

\* C2: a gateway call that ends in a content-level rejection (HTTP 400
\* INVALID_CONTENT or 413 CONTENT_TOO_LARGE) leaves the failure counter and
\* the breaker state unchanged.
C2_ContentRejectionNotCounted ==
  [][\A t \in Tasks :
       GatewayFails(t, ContentCodes)
       => /\ circuitBreaker'.failures = circuitBreaker.failures
          /\ circuitBreaker'.state = circuitBreaker.state]_vars

\* C3: a call that starts while the breaker is OPEN and more than 60 s after
\* lastFailureTime moves the breaker to HALF_OPEN and is forwarded; when that
\* trial call succeeds the breaker is CLOSED with failures = 0, and when it
\* ends in an infra-level failure the breaker is OPEN with lastFailureTime
\* set to the time of the failure.
C3_HalfOpenTrial ==
  [][\A t \in Tasks :
       /\ (Starts(t) /\ CooledDown)
          => /\ circuitBreaker'.state = "HALF_OPEN"
             /\ task'[t].sent
             /\ task'[t].pc = "inflight"
       /\ (GatewaySucceeds(t) /\ task[t].admitted = "TRIAL")
          => /\ circuitBreaker'.state = "CLOSED"
             /\ circuitBreaker'.failures = 0
       /\ (GatewayFails(t, InfraCodes) /\ task[t].admitted = "TRIAL")
          => /\ circuitBreaker'.state = "OPEN"
             /\ circuitBreaker'.lastFailureTime = now]_vars

\* C4: a call that starts while the breaker is HALF_OPEN and the trial call is
\* still in flight is not forwarded to the AI Engine.
C4_SingleTrial ==
  [][\A t \in Tasks :
       (/\ Starts(t)
        /\ circuitBreaker.state = "HALF_OPEN"
        /\ \E u \in Tasks \ {t} :
             task[u].pc = "inflight" /\ task[u].admitted = "TRIAL")
       => ~task'[t].sent]_vars

\* C5: a successful call restarts the count of failures: after a call has
\* succeeded while the breaker is CLOSED, failures = 0 (so that only failures
\* with no success between them add up to the threshold).
C5_SuccessRestartsCount ==
  [][\A t \in Tasks :
       (GatewaySucceeds(t) /\ circuitBreaker.state = "CLOSED")
       => circuitBreaker'.failures = 0]_vars

\* C6: the status of a record changes only from processing to completed or
\* from processing to failed; a completed or failed record keeps its status
\* for as long as it is observed.  (status "none" is a slot without a record:
\* createAnalysis makes it processing, and a slot is reused only after its
\* task has ended.)
C6_StatusMonotonic ==
  [][\A t \in Tasks :
       task'[t].status # task[t].status
       => \/ /\ task[t].status = "processing"
             /\ task'[t].status \in {"completed", "failed"}
          \/ task[t].status = "none" /\ task'[t].status = "processing"
          \/ task[t].pc = "done" /\ task'[t].status = "none"]_vars

\* One record has ended completed and another failed.
C6_Witness ==
  \E t, u \in Tasks :
    /\ task[t].pc = "done" /\ task[t].status = "completed"
    /\ task[u].pc = "done" /\ task[u].status = "failed"

\* C7: result is present exactly when status is completed and error is
\* present exactly when status is failed; a processing record has neither
\* and no record has both.
C7_ResultIffCompleted ==
  \A t \in Tasks :
    /\ task[t].hasResult <=> task[t].status = "completed"
    /\ task[t].hasError <=> task[t].status = "failed"

\* A record failed after its completed write was refused, next to one that is
\* still processing.
C7_Witness ==
  \E t, u \in Tasks :
    /\ task[t].status = "failed" /\ task[t].hasError /\ ~task[t].hasResult
    /\ task[t].pc = "cleanup"
    /\ task[u].status = "processing" /\ task[u].pc = "writeFailed"
    /\ task[u].err = "DATABASE_ERROR"

\* C8: when the background task of a submission has ended, its record is
\* completed or failed (so that none stays in processing forever).
C8_EndsTerminal ==
  \A t \in Tasks :
    task[t].pc = "done" => task[t].status \in {"completed", "failed"}

C10_FireAndForget ==
  /\ [](\A t \in Tasks :
          /\ task[t].responded => task[t].response = "processing"
          /\ ~task[t].unhandled)
  /\ [][\A t \in Tasks :
          Starts(t)
          => /\ task'[t].responded
             /\ task'[t].status = "processing"
             /\ task'[t].sent => task'[t].pc = "inflight"
             /\ ~task'[t].sent => task'[t].pc = "writeFailed"]_vars

\* A task whose failed write was refused has ended, its rejection handled,
\* after its handler had answered processing; another is still in flight.
C10_Witness ==
  \E t, u \in Tasks :
    /\ task[t].pc = "done" /\ task[t].thrown /\ ~task[t].unhandled
    /\ task[t].responded /\ task[t].response = "processing"
    /\ task[u].pc = "inflight" /\ task[u].responded

CoarseErrorMessages ==
  {"AI analysis timeout. The content may be too large or complex.",
   "AI Engine is unavailable",
   "Invalid content for analysis",
   "Content too large for analysis",
   "AI analysis failed",
   "Failed to communicate with AI Engine",
   BreakerOpenMessage, UpdateFailedMessage}

\* Task t's record is written failed in this step, with the message of the
\* error the task caught as its error value.
PersistsError(t) == task'[t].hasError /\ ~task[t].hasError

\* C12: the error value written to a failed record is one of the fixed
\* messages of the backend's own errors, never the message of the AI Engine's
\* response body and never the message of a raw exception.
C12_ErrorIsCoarse ==
  [][\A t \in Tasks :
       PersistsError(t) => task[t].errMsg \in CoarseErrorMessages]_vars

\* C13: when a gateway call succeeds while the breaker is CLOSED, failures
\* becomes 0 if the call returns more than 30 s
\* (CIRCUIT_BREAKER_RESET_TIMEOUT) after lastFailureTime, the time of the
\* most recent recorded failure, and keeps its value if it returns within
\* 30 s of it; the breaker stays CLOSED and lastFailureTime is kept.
C13_ResetAfterQuietWindow ==
  [][\A t \in Tasks :
       (GatewaySucceeds(t) /\ circuitBreaker.state = "CLOSED")
       => /\ circuitBreaker'.state = "CLOSED"
          /\ circuitBreaker'.lastFailureTime = circuitBreaker.lastFailureTime
          /\ circuitBreaker'.failures =
               IF now - circuitBreaker.lastFailureTime
                    > CIRCUIT_BREAKER_RESET_TIMEOUT
               THEN 0
               ELSE circuitBreaker.failures]_vars

\* A failure was recorded at the start of time, and 60 s later (too early
\* for the breaker to have been HALF_OPEN) a call has just succeeded and the
\* counter is back at 0.
C13_Witness ==
  /\ circuitBreaker.state = "CLOSED"
  /\ circuitBreaker.failures = 0
  /\ circuitBreaker.lastFailureTime = StartTime
  /\ now = StartTime + 2 * CIRCUIT_BREAKER_RESET_TIMEOUT
  /\ \E t \in Tasks : task[t].pc = "writeCompleted" /\ task[t].sent

\* C14: a read of the breaker status returns the breaker's current state,
\* failures and lastFailureTime and changes nothing: the breaker, the clock
\* and every task are the same after the read as before it, in every breaker
\* state, so what later gateway calls meet does not depend on how often the
\* status was read.
C14_StatusReadChangesNothing ==
  [][health' # health
     => /\ UNCHANGED <<circuitBreaker, now, task>>
        /\ health'.circuitBreaker =
             [state |-> circuitBreaker.state,
              failures |-> circuitBreaker.failures,
              lastFailureTime |-> circuitBreaker.lastFailureTime]]_vars

\* The status was read while the breaker was OPEN with its cool-down over,
\* and the call that came next, at the same moment, still was the one that
\* moved the breaker to HALF_OPEN and went out as the trial.
C14_Witness ==
  /\ health.circuitBreaker.state = "OPEN"
  /\ health.timestamp - health.circuitBreaker.lastFailureTime
       > CIRCUIT_BREAKER_TIMEOUT
  /\ health.timestamp = now
  /\ circuitBreaker.state = "HALF_OPEN"
  /\ \E t \in MonitorTasks :
       task[t].pc = "inflight" /\ task[t].admitted = "TRIAL"

\* Task t's gateway call records a failure in this step: the call throws,
\* be it rejected by the breaker or ended by the AI Engine's answer.
RecordsFailure(t) ==
  \/ Starts(t) /\ task'[t].pc = "writeFailed"
  \/ /\ task[t].pc = "inflight"
     /\ task'[t].pc = "writeFailed"
     /\ task'[t].err # "TypeError"

\* C15: with any number of calls in flight and in any order of their
\* steps, no update of the breaker is lost: every step that records a
\* failure adds exactly one to failures, failures changes in no other way
\* than by such a step or by a success that sets it to 0 (so failures is the
\* number of failures recorded since it last was 0), and the state is always
\* one of CLOSED, OPEN, HALF_OPEN.
C15_NoLostUpdate ==
  /\ [](circuitBreaker.state \in {"CLOSED", "OPEN", "HALF_OPEN"})
  /\ [][/\ \A t \in Tasks :
             RecordsFailure(t)
             => circuitBreaker'.failures = circuitBreaker.failures + 1
        /\ circuitBreaker'.failures # circuitBreaker.failures
           => \/ /\ circuitBreaker'.failures = circuitBreaker.failures + 1
                 /\ \E t \in Tasks : RecordsFailure(t)
              \/ /\ circuitBreaker'.failures = 0
                 /\ \E t \in Tasks : GatewaySucceeds(t)]_vars

\* The breaker is OPEN with one failure more than the threshold, recorded
\* by two calls that were in flight at the same time and have both failed.
C15_Witness ==
  /\ circuitBreaker.state = "OPEN"
  /\ circuitBreaker.failures = CIRCUIT_BREAKER_THRESHOLD + 1
  /\ \A t \in {1, 2} :
       /\ task[t].pc = "writeFailed"
       /\ task[t].sent
       /\ task[t].err \in InfraCodes \cup ContentCodes

\* C16: for per-model outputs with score and confidence in [0, 1], the
\* value of round(100 * sum(w*c*s) / sum(w*c)) is an integer from 0 to 100,
\* and it is the Truth Score the Aggregator returns.
C16_TruthScoreInRange ==
  aggOut.done
  => /\ aggOut.weighted \in 0..100
     /\ aggOut.truthScore = aggOut.weighted

\* Half-confident models all report the top score, and the Truth Score is
\* 100.
C16_Witness ==
  /\ aggOut.done
  /\ \A m \in Models : aggIn[m].confidence = 50 /\ aggIn[m].score = 100
  /\ aggOut.truthScore = 100

\* C17: when every confidence is 0 the Aggregator returns 50, whatever the
\* scores are.
C17_AllZeroConfidenceGivesNeutral ==
  (aggOut.done /\ \A m \in Models : aggIn[m].confidence = 0)
  => aggOut.truthScore = 50

\* Every confidence is 0, the scores are 0 and 100 (none of them 50), and the
\* Aggregator has returned 50.
C17_Witness ==
  /\ aggOut.done
  /\ \A m \in Models : aggIn[m].confidence = 0 /\ aggIn[m].score # 50
  /\ \E m, k \in Models : aggIn[m].score = 0 /\ aggIn[k].score = 100
  /\ aggOut.truthScore = 50

C19_TimelineAndMean ==
  videoOut.done
  => LET n == Len(frames)
         tl == videoOut.timeline
         total == SumOver(1..n, [i \in 1..n |-> tl[i].frameScore])
     IN /\ Len(tl) = n
        /\ \A i \in 1..n :
             /\ tl[i].frameIndex = i - 1
             /\ tl[i].frameScore = frames[i]["classifier"].score
             /\ tl[i].suspicious <=> tl[i].frameScore < 50
             /\ i > 1 => tl[i].timestampSec > tl[i - 1].timestampSec
        /\ 2 * (n * videoOut.truthScore - total) <= n
        /\ 2 * (total - n * videoOut.truthScore) <= n
        /\ frames = <<UniformFrame(80), UniformFrame(40), UniformFrame(90)>>
           => /\ Len(tl) = 3
              /\ {i \in 1..3 : tl[i].suspicious} = {2}
              /\ tl[2].frameIndex = 1
              /\ videoOut.truthScore = 70

\* The Reducer has been applied to the video with frame scores 80, 40, 90.
C19_Witness ==
  /\ videoOut.done
  /\ frames = <<UniformFrame(80), UniformFrame(40), UniformFrame(90)>>
  /\ Len(videoOut.timeline) = 3

\* The outputs without model m's entry.
Without(outs, m) == [k \in (DOMAIN outs) \ {m} |-> outs[k]]

\* C20: an entry with confidence 0 has no influence: the Truth Score
\* returned equals the one for the same outputs with that model's entry
\* absent, and the one for the same outputs with any other score in that
\* entry.
C20_ZeroConfidenceNoInfluence ==
  aggOut.done
  => \A m \in Models :
       aggIn[m].confidence = 0
       => /\ aggOut.truthScore = aggregate(Without(aggIn, m)).truthScore
          /\ \A sc \in ScoreGrid :
               aggOut.truthScore
                 = aggregate([aggIn EXCEPT ![m].score = sc]).truthScore

\* The one entry with confidence 0 carries score 0, all others carry score
\* 100 with confidence above 0, and the Truth Score is 100.
C20_Witness ==
  /\ aggOut.done
  /\ aggOut.truthScore = 100
  /\ \E m \in Models :
       /\ aggIn[m].confidence = 0 /\ aggIn[m].score = 0
       /\ \A k \in Models \ {m} :
            aggIn[k].confidence > 0 /\ aggIn[k].score = 100

\* The code and HTTP status of the error task t holds, when the gateway
\* built it from fault f.
Classified(t, f, code, status) ==
  task[t].fault = f => task[t].err = code /\ task[t].errStatus = status

\* C21 as stated: connection refused gives AI_ENGINE_UNAVAILABLE (503),
\* timeout ANALYSIS_TIMEOUT (408), engine 400 INVALID_CONTENT (400), engine
\* 413 CONTENT_TOO_LARGE (413), every engine 5xx (500 and 502 here)
\* ANALYSIS_FAILED (500), and the breaker-open rejection
\* AI_ENGINE_UNAVAILABLE.
C21_ClassifiedByFaultKind ==
  \A t \in Tasks :
    /\ Classified(t, "refused", "AI_ENGINE_UNAVAILABLE", 503)
    /\ Classified(t, "timeout", "ANALYSIS_TIMEOUT", 408)
    /\ Classified(t, "http400", "INVALID_CONTENT", 400)
    /\ Classified(t, "http400msg", "INVALID_CONTENT", 400)
    /\ Classified(t, "http413", "CONTENT_TOO_LARGE", 413)
    /\ Classified(t, "http500", "ANALYSIS_FAILED", 500)
    /\ Classified(t, "http502", "ANALYSIS_FAILED", 500)
    /\ task[t].fault = "breakerOpen" => task[t].err = "AI_ENGINE_UNAVAILABLE"

\* C21, amended: as stated, except that of the engine's 5xx answers only
\* status 500 gives ANALYSIS_FAILED (500); any other status, and a network
\* error that is neither a refusal nor a timeout, gives AI_ENGINE_ERROR (500).
C21_ClassifiedByFaultKindOnly500 ==
  \A t \in Tasks :
    /\ Classified(t, "refused", "AI_ENGINE_UNAVAILABLE", 503)
    /\ Classified(t, "timeout", "ANALYSIS_TIMEOUT", 408)
    /\ Classified(t, "http400", "INVALID_CONTENT", 400)
    /\ Classified(t, "http400msg", "INVALID_CONTENT", 400)
    /\ Classified(t, "http413", "CONTENT_TOO_LARGE", 413)
    /\ Classified(t, "http500", "ANALYSIS_FAILED", 500)
    /\ Classified(t, "http502", "AI_ENGINE_ERROR", 500)
    /\ Classified(t, "neterr", "AI_ENGINE_ERROR", 500)
    /\ Classified(t, "breakerOpen", "AI_ENGINE_UNAVAILABLE", 503)

\* One call was refused by the AI Engine's host and another was answered
\* 502; both hold their classified errors.
C21_Witness ==
  \E t, u \in Tasks :
    /\ task[t].fault = "refused" /\ task[t].err = "AI_ENGINE_UNAVAILABLE"
    /\ task[u].fault = "http502" /\ task[u].err = "AI_ENGINE_ERROR"

\* C26: a call that is rejected because the breaker is OPEN and at most 60 s
\* have passed since lastFailureTime leaves failures and lastFailureTime as
\* they were.
C26_RejectionNotCounted ==
  [][\A t \in Tasks :
       (Starts(t) /\ CoolingDown)
       => /\ circuitBreaker'.failures = circuitBreaker.failures
          /\ circuitBreaker'.lastFailureTime
               = circuitBreaker.lastFailureTime]_vars

\* C28: the breaker is CLOSED exactly when failures is below 5
\* (CIRCUIT_BREAKER_THRESHOLD), in every reachable state.
C28_ClosedIffBelowThreshold ==
  circuitBreaker.state = "CLOSED"
  <=> circuitBreaker.failures < CIRCUIT_BREAKER_THRESHOLD

\* The breaker has been OPEN and HALF_OPEN and is CLOSED again with
\* failures = 0 after the trial call succeeded, while a second call admitted
\* in HALF_OPEN is still in flight.
C28_Witness ==
  /\ circuitBreaker.state = "CLOSED"
  /\ circuitBreaker.failures = 0
  /\ now - circuitBreaker.lastFailureTime > CIRCUIT_BREAKER_TIMEOUT
  /\ \E t, u \in Tasks :
       /\ task[t].pc = "writeCompleted"
       /\ task[u].pc = "inflight" /\ task[u].admitted = "HALF_OPEN"

\* C29: when a call that was admitted while the breaker was CLOSED succeeds
\* while the breaker is OPEN or HALF_OPEN, the breaker is left as it was; the
\* breaker moves to CLOSED only in a step in which a call admitted in
\* HALF_OPEN (the trial call included) succeeds.
C29_StaleSuccessIgnored ==
  [][/\ \A t \in Tasks :
          (/\ GatewaySucceeds(t)
           /\ task[t].admitted = "CLOSED"
           /\ circuitBreaker.state \in {"OPEN", "HALF_OPEN"})
          => circuitBreaker' = circuitBreaker
     /\ (circuitBreaker'.state = "CLOSED" /\ circuitBreaker.state # "CLOSED")
        => \E t \in Tasks :
             /\ GatewaySucceeds(t)
             /\ task[t].admitted \in {"TRIAL", "HALF_OPEN"}]_vars

\* C27: if from some time on the AI Engine answers with success, then,
\* with calls arriving at whatever rate, a breaker that is OPEN is later
\* HALF_OPEN and later CLOSED.
C27_OpenBreakerRecovers ==
  (<>[]engineUp)
  => /\ [](circuitBreaker.state = "OPEN"
           => <>(circuitBreaker.state = "HALF_OPEN"))
     /\ [](circuitBreaker.state = "OPEN"
           => <>(circuitBreaker.state = "CLOSED"))

\* C22: in every completed result the task has persisted, for image and
\* for video, aiGeneratedProbability = 100 - truthScore and both lie in
\* 0..100, whatever the AI Engine's response carried.
C22_ProbabilityIsComplement ==
  stored.status = "completed"
  => /\ stored.aiGeneratedProbability = 100 - stored.truthScore
     /\ stored.truthScore \in 0..100
     /\ stored.aiGeneratedProbability \in 0..100

\* Client ip sends an upload request in this step.
Requests(ip) == limiter'[ip] # limiter[ip]

C24_InvalidPaginationRejected ==
  (/\ historyAnswer.status # 0
   /\ \/ historyRequest.page.kind = "int" /\ historyRequest.page.n < 1
      \/ historyRequest.limit.kind = "int" /\ historyRequest.limit.n < 1
      \/ historyRequest.limit.kind = "int" /\ historyRequest.limit.n > 100)
  => /\ historyAnswer.status = 400
     /\ historyAnswer.code = "INVALID_PAGINATION"
     /\ ~historyAnswer.queried

\* Reached: a request with page = 0 or limit = 0 and the other parameter
\* valid has been answered 400 without the query.
C24_Witness ==
  /\ historyAnswer.status = 400
  /\ ~historyAnswer.queried
  /\ \/ historyRequest.page = Digits(0) /\ historyRequest.limit = Digits(10)
     \/ historyRequest.page = Digits(1) /\ historyRequest.limit = Digits(0)

\* C25: an upload rejected for having no file, a size over the limit of its
\* kind, or an unsupported type is answered 400 with no file left behind,
\* and handling it changes neither the analysis records, nor the analyses
\* started, nor the breaker.
Rejected ==
  \/ ~uploadReq.hasFile
  \/ uploadReq.size > maxSize(uploadReq.type)
  \/ uploadReq.mime \notin allowedTypes(uploadReq.type)

C25_RejectedUploadLeavesNothing ==
  [][Rejected =>
       /\ records' = records
       /\ started' = started
       /\ circuitBreaker' = circuitBreaker
       /\ (upload'.pc = "answered" =>
             upload'.status = 400 /\ ~upload'.fileOnDisk)]_vars

\* C30: once the page has received a completed, failed or 404 answer (it
\* has then left the loading state), it issues no further status request.
C30_NoRequestAfterTerminalAnswer ==
  [][~dashboard.loading => requests' = requests]_vars

====
